---------------------------- MODULE Spec2Model ----------------------------
(***************************************************************************)
(* Model of src/main.py: the /webhook handler that reads a form submission, *)
(* normalises its field names, resolves the six semantic fields from alias  *)
(* lists and forwards a notification through the Resend API.                *)
(*                                                                          *)
(* A Python str (a field name, a field value, a secret, an address) is a    *)
(* sequence of code points, each code point a one-token string ("a", "-",   *)
(* "U+00E1").  Content types, response details and the provider's response  *)
(* text, which the code only passes on, are TLA+ strings.                   *)
(***************************************************************************)
EXTENDS Integers, Sequences, FiniteSets, TLC

VARIABLES
    config,          \* RESEND_API_KEY, RECIPIENT_FALLBACK, WEBHOOK_SECRET (main.py 17-20)
    request,         \* the POST /webhook request: query secret, content type, body
    provider,        \* what api.resend.com answers to a send made for this request
    pc,              \* "pending" before the handler ran, "responded" after
    provided_secret, \* local of receive_webhook (main.py 127, 139, 150)
    data,            \* local of receive_webhook: the normalised payload (main.py 157)
    resolved,        \* locals nome, telefone, email, crm, estado, mensagem (main.py 166-174)
    to_email,        \* local of receive_webhook (main.py 195)
    provider_calls,  \* the "to" lists POSTed to the provider by this request
    response,        \* the HTTP response of the handler
    label,           \* argument of a direct _slug_key call
    variant,         \* a second label, compared with label
    slug,            \* results of the _slug_key calls on label and variant
    pick_data,       \* arguments of a direct _pick call
    pick_keys,
    picked           \* result of the _pick call

vars == <<config, request, provider, pc, provided_secret, data, resolved, to_email,
          provider_calls, response, label, variant, slug, pick_data, pick_keys, picked>>

-----------------------------------------------------------------------------
(* Bounds of the model *)

\* longest label handed to _slug_key directly
MaxLen == 3
\* most top-level entries of a body plus elements of its "fields" list
MaxEntries == 2
\* most entries of the mapping and most candidates handed to _pick directly
MaxPick == 3

-----------------------------------------------------------------------------
(* Code points *)

\* U+00E1 is a-acute, U+00C9 is E-acute, U+00E7 is c-cedilla, U+0301 and U+0327
\* are the combining acute accent and cedilla, U+00A0 is the no-break space.
UpperCase == {"A", "B", "C", "D", "E", "F", "G", "H", "I", "J", "K", "L", "M", "N",
              "O", "P", "Q", "R", "S", "T", "U", "V", "W", "X", "Y", "Z"}
LowerCaseLetters == {"a", "b", "c", "d", "e", "f", "g", "h", "i", "j", "k", "l", "m", "n",
                     "o", "p", "q", "r", "s", "t", "u", "v", "w", "x", "y", "z"}
Digits == {"0", "1", "2", "3", "4", "5", "6", "7", "8", "9"}
Precomposed == {"U+00E1", "U+00C9", "U+00E7"}
CombiningMarks == {"U+0301", "U+0327"}
WhiteSpace == {" ", "U+00A0"}

\* unicodedata.normalize("NFKD", ch) for one code point
Decomposition(ch) ==
    CASE ch = "U+00E1" -> <<"a", "U+0301">>
      [] ch = "U+00C9" -> <<"E", "U+0301">>
      [] ch = "U+00E7" -> <<"c", "U+0327">>
      [] ch = "U+00A0" -> <<" ">>
      [] OTHER -> <<ch>>

\* unicodedata.category(ch).startswith("M")
IsMark(ch) == ch \in CombiningMarks

\* str.lower() for one code point
ToLower ==
    "A" :> "a" @@ "B" :> "b" @@ "C" :> "c" @@ "D" :> "d" @@ "E" :> "e" @@ "F" :> "f" @@
    "G" :> "g" @@ "H" :> "h" @@ "I" :> "i" @@ "J" :> "j" @@ "K" :> "k" @@ "L" :> "l" @@
    "M" :> "m" @@ "N" :> "n" @@ "O" :> "o" @@ "P" :> "p" @@ "Q" :> "q" @@ "R" :> "r" @@
    "S" :> "s" @@ "T" :> "t" @@ "U" :> "u" @@ "V" :> "v" @@ "W" :> "w" @@ "X" :> "x" @@
    "Y" :> "y" @@ "Z" :> "z"
LowerOf(ch) == IF ch \in UpperCase THEN ToLower[ch] ELSE ch

\* the regular-expression classes \w and \s (Unicode mode); combining marks are
\* not alphanumeric, so \w does not match them
IsWordChar(ch) == ch \in UpperCase \cup LowerCaseLetters \cup Precomposed \cup Digits \cup {"_"}
IsSpaceChar(ch) == ch \in WhiteSpace

-----------------------------------------------------------------------------
(* _slug_key, main.py 39-51, one operator per statement *)

RECURSIVE NFKD(_)
\* line 45: s = unicodedata.normalize("NFKD", s)
NFKD(s) == IF s = <<>> THEN <<>> ELSE Decomposition(Head(s)) \o NFKD(Tail(s))

\* line 46: drop the code points of category M
StripMarks(s) == SelectSeq(s, LAMBDA ch : ~IsMark(ch))

\* line 47: s = s.lower()
Lower(s) == [i \in 1..Len(s) |-> LowerOf(s[i])]

\* line 48: re.sub(r"[^\w\s]", "_", s), one underscore per code point
SubPunctuation(s) ==
    [i \in 1..Len(s) |-> IF IsWordChar(s[i]) \/ IsSpaceChar(s[i]) THEN s[i] ELSE "_"]

RECURSIVE SubRuns(_, _, _)
\* re.sub(<class>+, "_", s): every maximal run of the class becomes one underscore
SubRuns(s, class, inRun) ==
    IF s = <<>> THEN <<>>
    ELSE IF Head(s) \in class
         THEN (IF inRun THEN <<>> ELSE <<"_">>) \o SubRuns(Tail(s), class, TRUE)
         ELSE <<Head(s)>> \o SubRuns(Tail(s), class, FALSE)

\* line 49: re.sub(r"\s+", "_", s)
SubSpaces(s) == SubRuns(s, WhiteSpace, FALSE)

\* line 50, first half: re.sub(r"_+", "_", s)
CollapseUnderscores(s) == SubRuns(s, {"_"}, FALSE)

RECURSIVE LStrip(_, _)
LStrip(s, class) ==
    IF s # <<>> /\ Head(s) \in class THEN LStrip(Tail(s), class) ELSE s
RECURSIVE RStrip(_, _)
RStrip(s, class) ==
    IF s # <<>> /\ s[Len(s)] \in class THEN RStrip(SubSeq(s, 1, Len(s) - 1), class) ELSE s
\* line 50, second half: .strip("_")
StripUnderscores(s) == RStrip(LStrip(s, {"_"}), {"_"})

\* lines 49 and 50 in the other order
slug_key_swapped(s) ==
    SubSpaces(StripUnderscores(CollapseUnderscores(SubPunctuation(
        Lower(StripMarks(NFKD(s)))))))

\* line 47 left out
slug_key_keeping_case(s) ==
    StripUnderscores(CollapseUnderscores(SubSpaces(SubPunctuation(StripMarks(NFKD(s))))))

slug_key(s) ==
    StripUnderscores(CollapseUnderscores(SubSpaces(SubPunctuation(
        Lower(StripMarks(NFKD(s)))))))

-----------------------------------------------------------------------------
(* Python values and dicts *)

\* A value is tagged with its Python type; v is the text of a str and the
\* decimal digits of an int.
Str(s) == [t |-> "str", v |-> s]
PyInt(digits) == [t |-> "int", v |-> digits]
None == [t |-> "None", v |-> <<>>]
EmptyList == [t |-> "list", v |-> <<>>]
\* a list with elements, such as the value of a "fields" entry
SomeList == [t |-> "list", v |-> <<".", ".", ".">>]
\* a local that the handler never assigned because it raised before
Unassigned == [t |-> "unassigned", v |-> <<>>]

\* str(x)
PyStr(x) ==
    CASE x.t = "str" -> x.v
      [] x.t = "int" -> x.v
      [] x.t = "None" -> <<"N", "o", "n", "e">>
      [] OTHER -> <<"[">> \o x.v \o <<"]">>

\* bool(x): None, "", [] and 0 are false
Truthy(x) == x \notin {None, Str(<<>>), EmptyList, PyInt(<<"0">>)}

\* x or y
Or(x, y) == IF Truthy(x) THEN x ELSE y

\* A dict is the sequence of its <<key, value>> items in insertion order.
DictKeys(d) == {d[i][1] : i \in 1..Len(d)}
\* k in d
DictHas(d, k) == \E i \in 1..Len(d) : d[i][1] = k
\* d.get(k)
DictGet(d, k) == IF DictHas(d, k) THEN d[CHOOSE i \in 1..Len(d) : d[i][1] = k][2] ELSE None
\* d[k] = v: an existing key keeps its place
DictSet(d, k, v) ==
    IF DictHas(d, k) THEN [i \in 1..Len(d) |-> IF d[i][1] = k THEN <<k, v>> ELSE d[i]]
    ELSE Append(d, <<k, v>>)
\* d.setdefault(k, v)
DictSetDefault(d, k, v) == IF DictHas(d, k) THEN d ELSE Append(d, <<k, v>>)

-----------------------------------------------------------------------------
(* Literals of main.py *)

K_nome == <<"n","o","m","e">>
K_name == <<"n","a","m","e">>
K_full_name == <<"f","u","l","l","_","n","a","m","e">>
K_fullname == <<"f","u","l","l","n","a","m","e">>
K_first_name == <<"f","i","r","s","t","_","n","a","m","e">>
K_nome_completo == <<"n","o","m","e","_","c","o","m","p","l","e","t","o">>
K_mtq_zoom_nome == <<"m","t","q","_","z","o","o","m","_","n","o","m","e">>
K_formulario_nome == <<"f","o","r","m","u","l","a","r","i","o","_","n","o","m","e">>
K_mtq_nome == <<"m","t","q","_","n","o","m","e">>
K_telefone == <<"t","e","l","e","f","o","n","e">>
K_phone == <<"p","h","o","n","e">>
K_tel == <<"t","e","l">>
K_whatsapp == <<"w","h","a","t","s","a","p","p">>
K_celular == <<"c","e","l","u","l","a","r">>
K_email == <<"e","m","a","i","l">>
K_e_mail == <<"e","_","m","a","i","l">>
K_mail == <<"m","a","i","l">>
K_your_email == <<"y","o","u","r","_","e","m","a","i","l">>
K_contato_email == <<"c","o","n","t","a","t","o","_","e","m","a","i","l">>
K_crm == <<"c","r","m">>
K_qual_o_seu_crm == <<"q","u","a","l","_","o","_","s","e","u","_","c","r","m">>
K_registro_crm == <<"r","e","g","i","s","t","r","o","_","c","r","m">>
K_crm_medico == <<"c","r","m","_","m","e","d","i","c","o">>
K_estado == <<"e","s","t","a","d","o">>
K_uf == <<"u","f">>
K_state == <<"s","t","a","t","e">>
K_mensagem == <<"m","e","n","s","a","g","e","m">>
K_message == <<"m","e","s","s","a","g","e">>
K_observacoes == <<"o","b","s","e","r","v","a","c","o","e","s">>
K_comentarios == <<"c","o","m","e","n","t","a","r","i","o","s">>
K_notes == <<"n","o","t","e","s">>
K_secret == <<"s","e","c","r","e","t">>
K_fields == <<"f","i","e","l","d","s">>

\* the alias lists of lines 166-174
NomeKeys == <<K_nome, K_name, K_full_name, K_fullname, K_first_name, K_nome_completo, K_nome>>
NomeExtraKeys == <<K_mtq_zoom_nome, K_formulario_nome, K_mtq_nome>>
TelefoneKeys == <<K_telefone, K_phone, K_tel, K_whatsapp, K_celular>>
EmailKeys == <<K_email, K_e_mail, K_mail, K_your_email, K_contato_email>>
CrmKeys == <<K_crm, K_qual_o_seu_crm, K_registro_crm, K_crm_medico>>
EstadoKeys == <<K_estado, K_uf, K_state>>
MensagemKeys == <<K_mensagem, K_message, K_observacoes, K_comentarios, K_notes>>

-----------------------------------------------------------------------------
(* The helpers of main.py *)

\* str.strip(): whitespace off both ends
Strip(s) == RStrip(LStrip(s, WhiteSpace), WhiteSpace)

\* _norm_val, lines 33-37
norm_val(s) ==
    IF s = None THEN None
    ELSE LET stripped == Strip(PyStr(s))
         IN  IF stripped = <<>> THEN None ELSE Str(stripped)

\* line 55 without its second half
Usable_if_present(d, k) == DictHas(d, k)

\* the test of line 55: k in data and data[k] not in (None, "", [])
Usable(d, k) == DictHas(d, k) /\ DictGet(d, k) \notin {None, Str(<<>>), EmptyList}

RECURSIVE pick(_, _)
\* _pick, lines 53-57
pick(d, keys) ==
    IF keys = <<>> THEN None
    ELSE IF Usable(d, Head(keys)) THEN Str(PyStr(DictGet(d, Head(keys))))
    ELSE pick(d, Tail(keys))

\* An element of a "fields" list: an object with optional "id", "name", "label"
\* and "value" members, or something that is no object.
NoMember == None
Element(id, name, lbl, value) ==
    [object |-> TRUE, id |-> id, name |-> name, label |-> lbl, value |-> value]
NotAnObject == [object |-> FALSE, id |-> None, name |-> None, label |-> None, value |-> None]

\* line 68: key = f.get("id") or f.get("name") or f.get("label")
ElementKey(f) == Or(Or(f.id, f.name), f.label)

RECURSIVE FlattenFrom(_, _)
\* the loop of lines 67-71 over the rest of the list, out being the dict so far;
\* f.get of an element that is no object raises AttributeError
FlattenFrom(fields, out) ==
    IF fields = <<>> THEN [raised |-> FALSE, out |-> out]
    ELSE LET f == Head(fields)
         IN  IF ~f.object THEN [raised |-> TRUE, out |-> out]
             ELSE IF ~Truthy(ElementKey(f)) THEN FlattenFrom(Tail(fields), out)
             ELSE FlattenFrom(Tail(fields),
                              DictSet(out, slug_key(PyStr(ElementKey(f))), f.value))

\* the loop skipping what is no object instead of raising
flatten_skipping(fields_kind, fields) ==
    IF fields_kind = "list"
    THEN FlattenFrom(SelectSeq(fields, LAMBDA f : f.object), <<>>)
    ELSE [raised |-> FALSE, out |-> <<>>]

\* _flatten_elementor_fields, lines 59-72, of a payload whose "fields" member is
\* absent, not a list, or the list `fields`
flatten_elementor_fields(fields_kind, fields) ==
    IF fields_kind = "list" THEN FlattenFrom(fields, <<>>)
    ELSE [raised |-> FALSE, out |-> <<>>]

RECURSIVE NormalizeFrom(_, _)
\* the loop of lines 77-82; _slug_key raises on no str, so the except branch
\* never runs
NormalizeFrom(items, norm) ==
    IF items = <<>> THEN norm
    ELSE NormalizeFrom(Tail(items), DictSet(norm, slug_key(Head(items)[1]), Head(items)[2]))

\* _normalize_payload, lines 74-83
normalize_payload(raw) == NormalizeFrom(raw, <<>>)

-----------------------------------------------------------------------------
(* Requests, configuration and the provider *)

\* content types; the handler lower-cases the header and looks for
\* "application/json" in it (lines 130, 136)
JsonContentTypes == {"application/json"}
FormContentTypes == {"application/x-www-form-urlencoded", "multipart/form-data", ""}
IsJsonContentType(ct) == ct \in JsonContentTypes

\* A body is described by what its parser makes of it:
\*   json_empty      no bytes at all, read as "{}" (line 138)
\*   json_malformed  json.loads raises
\*   json_nonobject  json.loads returns a list, a string, a number or null
\*   json_object     an object: its items other than "fields" in order (top), and
\*                   its "fields" member (absent, not a list, or a list)
\*   form_error      request.form() raises
\*   form            the form's items in order (top)
Body(kind, top, fields_kind, fields) ==
    [kind |-> kind, top |-> top, fields_kind |-> fields_kind, fields |-> fields]

\* the value the "fields" member has in the parsed object
FieldsValue(body) ==
    CASE body.fields_kind = "list" -> (IF body.fields = <<>> THEN EmptyList ELSE SomeList)
      [] OTHER -> PyInt(<<"7">>)

\* the parsed JSON object as a dict
JsonObject(body) ==
    IF body.fields_kind = "absent" THEN body.top
    ELSE Append(body.top, <<K_fields, FieldsValue(body)>>)

\* the provider's answers: raise_for_status() raises on a 4xx or 5xx status
ProviderAccepts == [status |-> 200, text |-> "{id: 49a3}"]
ProviderRejects == [status |-> 422, text |-> "{message: invalid to}"]
IsErrorStatus(status) == status >= 400

-----------------------------------------------------------------------------
(* send_email_via_resend, lines 87-105 *)

send_email_via_resend(to, cfg, prov) ==
    IF cfg.RESEND_API_KEY = <<>>
    THEN [raised |-> "RuntimeError", text |-> "RESEND_API_KEY nao configurada",
          calls |-> <<>>]
    ELSE LET calls == << [to |-> <<to>>] >>
         IN  IF IsErrorStatus(prov.status)
             THEN [raised |-> "HTTPStatusError", text |-> prov.text, calls |-> calls]
             ELSE [raised |-> "", text |-> prov.text, calls |-> calls]

-----------------------------------------------------------------------------
(* receive_webhook, lines 115-216 *)

\* the names the module binds (imports, assignments and defs of lines 1-116)
ModuleNames ==
    {"os", "json", "logging", "unicodedata", "re", "Optional", "Dict", "Any", "FastAPI",
     "Form", "Request", "HTTPException", "load_dotenv", "httpx", "RESEND_API_KEY",
     "SENDER_EMAIL", "RECIPIENT_FALLBACK", "WEBHOOK_SECRET", "logger", "app", "_norm_val",
     "_slug_key", "_pick", "_flatten_elementor_fields", "_normalize_payload",
     "send_email_via_resend", "health", "receive_webhook"}
\* the names receive_webhook binds before line 210
HandlerNames ==
    {"request", "query_secret", "provided_secret", "content_type", "raw_body_bytes",
     "raw_body_text", "data_raw", "fields_flat", "k", "v", "form", "data", "nome",
     "telefone", "email", "crm", "estado", "mensagem", "to_email", "subject"}
\* reading a name that neither scope binds raises NameError
NameBound(name) == name \in HandlerNames \cup ModuleNames

HttpResponse(status, detail, provider_response) ==
    [status |-> status, detail |-> detail, provider_response |-> provider_response]

RECURSIVE SetDefaults(_, _)
\* lines 143-144: for k, v in fields_flat.items(): data_raw.setdefault(k, v)
SetDefaults(raw, flat) ==
    IF flat = <<>> THEN raw
    ELSE SetDefaults(DictSetDefault(raw, Head(flat)[1], Head(flat)[2]), Tail(flat))

\* line 150 left out: only a JSON body's secret replaces the query secret
extract_payload_json_only(req) ==
    LET body == req.body
        empty == [data_raw |-> <<>>, provided_secret |-> req.query_secret]
    IN  IF IsJsonContentType(req.content_type)
        THEN CASE body.kind = "json_empty" -> empty
               [] body.kind = "json_object" ->
                    LET raw == JsonObject(body)
                        secret == Or(DictGet(raw, K_secret), req.query_secret)
                        flat == flatten_elementor_fields(body.fields_kind, body.fields)
                    IN  IF flat.raised
                        THEN [data_raw |-> <<>>, provided_secret |-> secret]
                        ELSE [data_raw |-> SetDefaults(raw, flat.out),
                              provided_secret |-> secret]
               [] OTHER -> empty
        ELSE CASE body.kind = "form" ->
                    [data_raw |-> body.top, provided_secret |-> req.query_secret]
               [] OTHER -> empty

\* lines 134-154: data_raw and provided_secret after the try statement; an
\* exception leaves provided_secret as it was assigned last
extract_payload(req) ==
    LET body == req.body
        empty == [data_raw |-> <<>>, provided_secret |-> req.query_secret]
    IN  IF IsJsonContentType(req.content_type)
        THEN CASE body.kind = "json_empty" -> empty
               [] body.kind = "json_object" ->
                    LET raw == JsonObject(body)
                        secret == Or(DictGet(raw, K_secret), req.query_secret)
                        flat == flatten_elementor_fields(body.fields_kind, body.fields)
                    IN  IF flat.raised
                        THEN [data_raw |-> <<>>, provided_secret |-> secret]
                        ELSE [data_raw |-> SetDefaults(raw, flat.out),
                              provided_secret |-> secret]
               [] OTHER -> empty
        ELSE CASE body.kind = "form" ->
                    [data_raw |-> body.top,
                     provided_secret |-> Or(DictGet(body.top, K_secret), req.query_secret)]
               [] OTHER -> empty

\* line 161 without `not provided_secret or`
secret_refused_if_given(cfg, secret) ==
    cfg.WEBHOOK_SECRET # <<>> /\ Truthy(secret) /\ secret # Str(cfg.WEBHOOK_SECRET)

\* lines 160-161: the request is refused
secret_refused(cfg, secret) ==
    cfg.WEBHOOK_SECRET # <<>> /\ (~Truthy(secret) \/ secret # Str(cfg.WEBHOOK_SECRET))

\* lines 166-174
resolve_fields(d) ==
    LET nome == pick(d, NomeKeys)
    IN  [nome |-> IF ~Truthy(nome) THEN pick(d, NomeExtraKeys) ELSE nome,
         telefone |-> pick(d, TelefoneKeys),
         email |-> pick(d, EmailKeys),
         crm |-> pick(d, CrmKeys),
         estado |-> pick(d, EstadoKeys),
         mensagem |-> pick(d, MensagemKeys)]
NoFields == [nome |-> Unassigned, telefone |-> Unassigned, email |-> Unassigned,
             crm |-> Unassigned, estado |-> Unassigned, mensagem |-> Unassigned]

\* line 195 without _norm_val on the resolved email
destination_untrimmed(cfg, email) == Or(email, norm_val(Str(cfg.RECIPIENT_FALLBACK)))

\* line 195
destination(cfg, email) == Or(norm_val(email), norm_val(Str(cfg.RECIPIENT_FALLBACK)))

\* lines 208-216: the arguments of the call of line 210 are read first, and
\* `html` is one of them
send_step(to, cfg, prov) ==
    IF ~NameBound("html")
    THEN [calls |-> <<>>,
          response |-> HttpResponse(500, "name 'html' is not defined", "")]
    ELSE LET sent == send_email_via_resend(to, cfg, prov)
         IN  [calls |-> sent.calls,
              response |->
                CASE sent.raised = "" -> HttpResponse(200, "", sent.text)
                  [] sent.raised = "HTTPStatusError" -> HttpResponse(502, sent.text, "")
                  [] OTHER -> HttpResponse(500, sent.text, "")]

\* the whole handler: its locals and its response
handle(cfg, req, prov) ==
    LET got == extract_payload(req)
        d == normalize_payload(got.data_raw)
        early == [provided_secret |-> got.provided_secret, data |-> d,
                  resolved |-> NoFields, to_email |-> Unassigned, calls |-> <<>>,
                  response |-> HttpResponse(0, "", "")]
    IN  IF secret_refused(cfg, got.provided_secret)
        THEN [early EXCEPT !.response = HttpResponse(401, "Invalid secret", "")]
        ELSE LET fields == resolve_fields(d)
                 to == destination(cfg, fields.email)
             IN  IF ~Truthy(to)
                 THEN [early EXCEPT !.resolved = fields, !.to_email = to,
                                    !.response = HttpResponse(400, "Nenhum e-mail de destino encontrado", "")]
                 ELSE LET sent == send_step(PyStr(to), cfg, prov)
                      IN  [early EXCEPT !.resolved = fields, !.to_email = to,
                                        !.calls = sent.calls, !.response = sent.response]

-----------------------------------------------------------------------------
(* The inputs the model draws *)

T_right == <<"s", "3">>
T_wrong == <<"n", "o">>
T_key == <<"r", "e", "_", "1">>
T_blank == <<" ">>
T_ab == <<"a", "@", "b", ".", "c", "o", "m">>
T_ab_padded == <<" ">> \o T_ab \o <<" ">>
T_xy == <<"x", "@", "y", ".", "c", "o", "m">>
T_fallback == <<"f", "b", "@", "x", ".", "c", "o", "m">>
T_Ana == <<"A", "n", "a">>
\* the label "E-mail" as a form builder sends it
L_E_mail == <<"E", "-", "m", "a", "i", "l">>

Configs ==
    [RESEND_API_KEY : {<<>>, T_key},
     RECIPIENT_FALLBACK : {<<>>, T_blank, T_fallback},
     WEBHOOK_SECRET : {<<>>, T_right}]

QuerySecrets == {None, Str(T_right), Str(T_wrong)}

FormEntries ==
    {<<K_secret, Str(s)>> : s \in {<<>>, T_right, T_wrong}}
    \cup {<<K_email, Str(s)>> : s \in {T_ab, T_blank}}
    \cup {<<L_E_mail, Str(T_ab_padded)>>, <<K_e_mail, Str(T_ab)>>, <<K_nome, Str(T_Ana)>>}
JsonEntries == FormEntries \cup {<<K_e_mail, None>>}

FieldElements ==
    {NotAnObject,
     Element(Str(L_E_mail), NoMember, NoMember, Str(T_xy)),
     Element(Str(<<>>), Str(L_E_mail), NoMember, Str(T_xy)),
     Element(NoMember, NoMember, Str(L_E_mail), Str(T_xy)),
     Element(NoMember, NoMember, NoMember, Str(T_xy)),
     Element(Str(L_E_mail), NoMember, NoMember, NoMember)}

RECURSIVE Dicts(_, _)
\* the dicts of exactly n of the given items, in every order, no key twice
Dicts(items, n) ==
    IF n = 0 THEN {<<>>}
    ELSE UNION {{Append(d, e) : e \in {x \in items : ~DictHas(d, x[1])}} :
                d \in Dicts(items, n - 1)}

RECURSIVE Lists(_, _)
\* the lists of exactly n elements of S
Lists(S, n) ==
    IF n = 0 THEN {<<>>} ELSE {Append(s, x) : s \in Lists(S, n - 1), x \in S}

JsonObjectBodies ==
    UNION {UNION {
        {Body("json_object", top, "list", fields) :
            top \in Dicts(JsonEntries, n), fields \in Lists(FieldElements, m)}
        \cup (IF m = 0
              THEN {Body("json_object", top, kind, <<>>) :
                        top \in Dicts(JsonEntries, n), kind \in {"absent", "nonlist"}}
              ELSE {})
        : m \in 0..(MaxEntries - n)} : n \in 0..MaxEntries}

JsonBodies ==
    {Body(kind, <<>>, "absent", <<>>) : kind \in {"json_empty", "json_malformed", "json_nonobject"}}
    \cup JsonObjectBodies

FormBodies ==
    {Body("form_error", <<>>, "absent", <<>>)}
    \cup UNION {{Body("form", top, "absent", <<>>) : top \in Dicts(FormEntries, n)} :
                n \in 0..MaxEntries}

Requests ==
    [query_secret : QuerySecrets, content_type : JsonContentTypes, body : JsonBodies]
    \cup [query_secret : QuerySecrets, content_type : FormContentTypes, body : FormBodies]

NoRequest == [query_secret |-> None, content_type |-> "", body |-> Body("form", <<>>, "absent", <<>>)]
NoConfig == [RESEND_API_KEY |-> <<>>, RECIPIENT_FALLBACK |-> <<>>, WEBHOOK_SECRET |-> <<>>]
NoSlug == [of_label |-> <<>>, of_variant |-> <<>>, of_label_again |-> <<>>,
           of_variant_again |-> <<>>]

-----------------------------------------------------------------------------
(* The webhook: one request against one configuration *)

HandlerIdle ==
    /\ provided_secret = Unassigned
    /\ data = <<>>
    /\ resolved = NoFields
    /\ to_email = Unassigned
    /\ provider_calls = <<>>
    /\ response = HttpResponse(0, "", "")

HelpersIdle ==
    /\ label = <<>>
    /\ variant = <<>>
    /\ slug = NoSlug
    /\ pick_data = <<>>
    /\ pick_keys = <<>>
    /\ picked = Unassigned

Init ==
    /\ config \in Configs
    /\ request \in Requests
    /\ provider \in {ProviderAccepts, ProviderRejects}
    /\ pc = "pending"
    /\ HandlerIdle
    /\ HelpersIdle

\* POST /webhook
receive_webhook ==
    /\ pc = "pending"
    /\ \E result \in {handle(config, request, provider)} :
           /\ provided_secret' = result.provided_secret
           /\ data' = result.data
           /\ resolved' = result.resolved
           /\ to_email' = result.to_email
           /\ provider_calls' = result.calls
           /\ response' = result.response
    /\ pc' = "responded"
    /\ UNCHANGED <<config, request, provider, label, variant, slug, pick_data, pick_keys, picked>>

Next == receive_webhook

Spec == Init /\ [][Next]_vars

-----------------------------------------------------------------------------
(* Direct calls of _slug_key: a label, and a variant of it *)

SlugAlphabet == {"a", "A", "U+00E1", "-", " ", "_"}

Labels == UNION {Lists(SlugAlphabet, n) : n \in 0..MaxLen}

\* a label with accents, letter case and punctuation taken away (letters,
\* digits, underscores and whitespace stay)
WithoutPunctuation(s) ==
    SelectSeq(Lower(StripMarks(NFKD(s))), LAMBDA ch : IsWordChar(ch) \/ IsSpaceChar(ch))

RECURSIVE WordsFrom(_, _)
\* the words of s: its maximal runs of letters and digits; word is the run that
\* ends where s begins
WordsFrom(s, word) ==
    IF s = <<>> THEN (IF word = <<>> THEN <<>> ELSE <<word>>)
    ELSE IF Head(s) \in LowerCaseLetters \cup Digits
         THEN WordsFrom(Tail(s), Append(word, Head(s)))
         ELSE (IF word = <<>> THEN <<>> ELSE <<word>>) \o WordsFrom(Tail(s), <<>>)
\* the words of a label, accents and letter case taken away
Words(s) == WordsFrom(Lower(StripMarks(NFKD(s))), <<>>)

\* the code points that differ from ch in accent and letter case only, or that
\* are punctuation, whitespace or underscore like ch
Respell(ch) ==
    IF ch \in {"a", "A", "U+00E1"} THEN {"a", "A", "U+00E1"} ELSE {"-", " ", "_"}

RECURSIVE Respellings(_)
\* the labels that differ from s, place by place, as Respell allows
Respellings(s) ==
    IF s = <<>> THEN {<<>>}
    ELSE {<<ch>> \o rest : ch \in Respell(Head(s)), rest \in Respellings(Tail(s))}

\* s with one punctuation mark more, at any place
Punctuated(s) ==
    IF Len(s) < MaxLen
    THEN {SubSeq(s, 1, i) \o <<"-">> \o SubSeq(s, i + 1, Len(s)) : i \in 0..Len(s)}
    ELSE {}

InitSlug ==
    /\ config = NoConfig
    /\ request = NoRequest
    /\ provider = ProviderAccepts
    /\ pc = "call"
    /\ HandlerIdle
    /\ label \in Labels
    /\ variant \in Respellings(label) \cup Punctuated(label)
    /\ slug = NoSlug
    /\ pick_data = <<>>
    /\ pick_keys = <<>>
    /\ picked = Unassigned

\* _slug_key(label) and _slug_key(variant), and _slug_key of each key again
call_slug_key ==
    /\ pc = "call"
    /\ \E key \in {slug_key(label)}, other \in {slug_key(variant)} :
           slug' = [of_label |-> key, of_variant |-> other,
                    of_label_again |-> slug_key(key), of_variant_again |-> slug_key(other)]
    /\ pc' = "returned"
    /\ UNCHANGED <<config, request, provider, provided_secret, data, resolved, to_email,
                   provider_calls, response, label, variant, pick_data, pick_keys, picked>>

NextSlug == call_slug_key

SpecSlug == InitSlug /\ [][NextSlug]_vars

-----------------------------------------------------------------------------
(* Direct calls of _pick *)

T_123 == <<"1", "2", "3">>
PickKeys == {K_telefone, K_phone, K_tel}
PickValues == {None, Str(<<>>), EmptyList, Str(T_123), Str(T_blank), PyInt(<<"0">>)}
PickItems == {<<k, v>> : k \in PickKeys, v \in PickValues}

InitPick ==
    /\ config = NoConfig
    /\ request = NoRequest
    /\ provider = ProviderAccepts
    /\ pc = "call"
    /\ HandlerIdle
    /\ label = <<>>
    /\ variant = <<>>
    /\ slug = NoSlug
    /\ pick_data \in UNION {Dicts(PickItems, n) : n \in 0..MaxPick}
    /\ pick_keys \in UNION {Lists(PickKeys, n) : n \in 0..MaxPick}
    /\ picked = Unassigned

\* _pick(pick_data, pick_keys)
call_pick ==
    /\ pc = "call"
    /\ picked' = pick(pick_data, pick_keys)
    /\ pc' = "returned"
    /\ UNCHANGED <<config, request, provider, provided_secret, data, resolved, to_email,
                   provider_calls, response, label, variant, slug, pick_data, pick_keys>>

NextPick == call_pick

SpecPick == InitPick /\ [][NextPick]_vars

-----------------------------------------------------------------------------
(* Properties of the webhook, checked under Spec *)

Responded == pc = "responded"

\* the "secret" member of a body that was read as an object or a form
BodySecret(req) ==
    IF req.body.kind \in {"json_object", "form"}
       /\ \E i \in 1..Len(req.body.top) : req.body.top[i][1] = K_secret
    THEN req.body.top[CHOOSE i \in 1..Len(req.body.top) : req.body.top[i][1] = K_secret][2]
    ELSE None

\* the body's "fields" list holds something that is no object
FieldsMalformed(body) ==
    /\ body.kind = "json_object"
    /\ body.fields_kind = "list"
    /\ \E j \in 1..Len(body.fields) : ~body.fields[j].object

\* the handler got as far as the send of lines 208-216
ReachedSend == Responded /\ to_email.t = "str"

\* C1: a request that passes the secret check with a destination, the API key
\* configured and the provider accepting, is answered 200 with the provider's
\* JSON, and the provider was called once, with that destination alone.
C1_SendSucceeds ==
    (ReachedSend /\ config.RESEND_API_KEY # <<>> /\ provider = ProviderAccepts)
        => /\ response = HttpResponse(200, "", provider.text)
           /\ provider_calls = << [to |-> <<to_email.v>>] >>

\* C2: with a secret configured, a request none of whose secrets equals it is
\* answered 401 and nothing is sent, whatever its body; with no secret
\* configured no request is answered 401.
C2_SecretCheck ==
    Responded =>
        /\ (config.WEBHOOK_SECRET # <<>>
            /\ Str(config.WEBHOOK_SECRET) \notin {request.query_secret, BodySecret(request)})
               => (response.status = 401 /\ provider_calls = <<>>)
        /\ config.WEBHOOK_SECRET = <<>> => response.status # 401

C2_Witness ==
    /\ Responded
    /\ config.WEBHOOK_SECRET # <<>>
    /\ request.query_secret = Str(T_wrong)
    /\ request.body.kind = "json_malformed"
    /\ response.status = 401

\* C3: past the secret check, the destination is the resolved email when it is
\* not empty after trimming, else the fallback when that is not empty after
\* trimming; with neither the answer is 400 and nothing is sent.
C3_Destination ==
    (Responded /\ response.status # 401) =>
        LET email == IF resolved.email = None THEN <<>> ELSE Strip(resolved.email.v)
            fallback == Strip(config.RECIPIENT_FALLBACK)
        IN  /\ email # <<>> => to_email = Str(email)
            /\ (email = <<>> /\ fallback # <<>>) => to_email = Str(fallback)
            /\ (email = <<>> /\ fallback = <<>>)
                  => (response.status = 400 /\ provider_calls = <<>>)
            /\ response.status = 400 => (email = <<>> /\ fallback = <<>>)

C3_Witness ==
    /\ Responded
    /\ resolved.email = Str(T_blank)
    /\ config.RECIPIENT_FALLBACK = T_blank
    /\ response.status = 400
    /\ provider_calls = <<>>

\* C4: when the send is reached and the provider answers with an error status,
\* the answer is 502 with the provider's text.
C4_ProviderErrorIs502 ==
    (ReachedSend /\ config.RESEND_API_KEY # <<>> /\ provider = ProviderRejects)
        => response = HttpResponse(502, provider.text, "")

\* C5: in a JSON body, when a top-level key and an identifier of the "fields"
\* list have the same normalised key, the payload holds a top-level value under
\* that key.
C5_TopLevelWins ==
    (Responded /\ request.body.kind = "json_object" /\ request.body.fields_kind = "list"
     /\ ~FieldsMalformed(request.body)) =>
        \A i \in 1..Len(request.body.top), j \in 1..Len(request.body.fields) :
            LET key == slug_key(request.body.top[i][1])
                id == ElementKey(request.body.fields[j])
            IN  (Truthy(id) /\ slug_key(PyStr(id)) = key)
                    => DictGet(data, key) \in
                          {request.body.top[m][2] :
                              m \in {n \in 1..Len(request.body.top) :
                                        slug_key(request.body.top[n][1]) = key}}

\* C8: a malformed JSON body, a JSON value that is no object, a malformed
\* "fields" list and a form that fails to parse each leave an empty mapping,
\* and the handler goes on to the secret check and the destination.
C8_ParseFailureLeavesEmpty ==
    (Responded
     /\ (request.body.kind \in {"json_malformed", "json_nonobject", "form_error"}
         \/ FieldsMalformed(request.body))) =>
        /\ data = <<>>
        /\ response.status \in {401, 400, 500, 502, 200}
        /\ response.status # 401 => (resolved.email = None /\ to_email # Unassigned)

C8_Witness ==
    /\ Responded
    /\ FieldsMalformed(request.body)
    /\ \E i \in 1..Len(request.body.top) : request.body.top[i][1] = K_email
    /\ data = <<>>
    /\ response.status = 400

\* C10: for a JSON body and a form alike, a non-empty "secret" in the body that
\* was read replaces the query secret, and an absent or empty one leaves it;
\* with a secret configured the request is refused exactly when that secret
\* differs from it.
C10_BodySecretOverrides ==
    (Responded /\ request.body.kind \in {"json_empty", "json_object", "form"}
     /\ ~FieldsMalformed(request.body)) =>
        LET inBody == BodySecret(request)
            checked == IF inBody \notin {None, Str(<<>>)} THEN inBody ELSE request.query_secret
        IN  /\ provided_secret = checked
            /\ config.WEBHOOK_SECRET # <<>>
                  => (response.status = 401 <=> checked # Str(config.WEBHOOK_SECRET))

C10_Witness ==
    /\ Responded
    /\ request.body.kind = "form"
    /\ config.WEBHOOK_SECRET = T_right
    /\ request.query_secret = Str(T_right)
    /\ BodySecret(request) = Str(T_wrong)
    /\ response.status = 401

-----------------------------------------------------------------------------
(* Properties of _pick, checked under SpecPick *)

\* the candidate at place j of pick_keys is in pick_data with a value that is
\* not None, "" or []
Qualifies(j) ==
    \E i \in 1..Len(pick_data) :
        /\ pick_data[i][1] = pick_keys[j]
        /\ pick_data[i][2] # None
        /\ pick_data[i][2] # Str(<<>>)
        /\ pick_data[i][2] # EmptyList

\* C6: _pick returns (as text) the value of the first candidate, in list order,
\* that is present with a value that is not empty, null or an empty list, and
\* None when there is no such candidate.
C6_FirstQualifying ==
    pc = "returned" =>
        IF \E j \in 1..Len(pick_keys) : Qualifies(j)
        THEN LET first == CHOOSE j \in 1..Len(pick_keys) :
                              Qualifies(j) /\ \A m \in 1..(j - 1) : ~Qualifies(m)
                 value == pick_data[CHOOSE i \in 1..Len(pick_data) :
                                        pick_data[i][1] = pick_keys[first]][2]
             IN  picked = Str(PyStr(value))
        ELSE picked = None

C6_Witness ==
    /\ pc = "returned"
    /\ pick_data = << <<K_telefone, Str(<<>>)>>, <<K_phone, Str(T_123)>> >>
    /\ pick_keys = <<K_tel, K_telefone, K_phone>>
    /\ picked = Str(T_123)

-----------------------------------------------------------------------------
(* Properties of _slug_key, checked under SpecSlug *)

\* C7: _slug_key(_slug_key(s)) = _slug_key(s)
C7_Idempotent ==
    pc = "returned" =>
        /\ slug.of_label_again = slug.of_label
        /\ slug.of_variant_again = slug.of_variant

C7_Witness ==
    /\ pc = "returned"
    /\ label = <<"_", "A", "-">>
    /\ variant = <<" ", "U+00E1", "_">>
    /\ slug.of_label = <<"a">>
    /\ slug.of_label_again = <<"a">>

\* C9 as stated: two labels that differ in accents, letter case and punctuation
\* only have the same key.
C9_SameButForPunctuation ==
    (pc = "returned" /\ WithoutPunctuation(label) = WithoutPunctuation(variant))
        => slug.of_label = slug.of_variant

\* C9 as amended: two labels made of the same words in the same order, that
\* differ only in accents, in letter case and in the punctuation or whitespace
\* between and around the words, have the same key.
C9_SameWords ==
    (pc = "returned" /\ Words(label) = Words(variant))
        => slug.of_label = slug.of_variant

C9_Witness ==
    /\ pc = "returned"
    /\ label = <<"A", "-", "a">>
    /\ variant = <<"U+00E1", " ", "A">>
    /\ slug.of_label = <<"a", "_", "a">>
    /\ slug.of_variant = <<"a", "_", "a">>

====
